---- MODULE Spec2Model ----
(***************************************************************************)
(* Model of todo-api/index.js: an Express service with three route         *)
(* handlers (GET /api/v1/todos, POST /api/v1/todos, POST /api/v1/search)   *)
(* over a Postgres table, a Redis set and an Elasticsearch index.          *)
(*                                                                         *)
(* Every handler is an async function.  It runs synchronously up to its    *)
(* next `await`, so a request is always suspended on exactly one store     *)
(* call; pc names the call whose reply the request is waiting for.  One    *)
(* action handles one reply: it applies the call's effect on the store,    *)
(* then runs the handler up to the next call it issues or the response it  *)
(* sends.  Any store call may reject (connection failure); a rejected      *)
(* call has no effect on its store.                                        *)
(*                                                                         *)
(* The handlers share no state but the three stores, and a request has no  *)
(* identity the code reads, so the requests being served are a bag of      *)
(* request records.                                                        *)
(***************************************************************************)
EXTENDS Integers, Sequences, FiniteSets, Bags, TLC

\* Number of requests that can be in service at the same time.
NumReqs == 2
\* The titles a client may send are "1" .. ToString(MaxTitle).
MaxTitle == 2

Titles == {ToString(n) : n \in 1..MaxTitle}
\* req.body.title, or req.body.searchText, of a request body without it.
NoTitle == "undefined"
Inputs == Titles \cup {NoTitle}

VARIABLES
    db,      \* titles of the rows of table todo (the ids are never read)
    redis,   \* members of the Redis set "todos"
    elastic, \* documents of the index "todos": a bag, documents carry no key
    req      \* bag of the requests in service: what was asked, where the
             \* handler is suspended, its locals and the response it sent

vars == <<db, redis, elastic, req>>

----------------------------------------------------------------------------
\* Values

\* The arrays that hold every element of S once, in any order.
Arrays(S) ==
    {f \in [1..Cardinality(S) -> S] : \A a, b \in 1..Cardinality(S) : a # b => f[a] # f[b]}

\* SMEMBERS returns the members as an array in no particular order.
sMembers(S) == Arrays(S)

\* SELECT title FROM todo: one {title} row per table row; without ORDER BY
\* the rows come in no particular order.
todoRows == {[k \in 1..Len(arr) |-> [title |-> arr[k]]] : arr \in Arrays(db)}

\* The titles carried by a sequence of {title} rows.
TitlesOf(rows) == {rows[k].title : k \in 1..Len(rows)}

\* A response body is JSON: an array of one-key objects, or one object given
\* by its members.
JsonArray(key, vals) ==
    [array |-> TRUE, members |-> [k \in 1..Len(vals) |-> [key |-> key, val |-> vals[k]]]]
JsonObject(key, val) ==
    [array |-> FALSE, members |-> <<[key |-> key, val |-> val]>>]
NoBody == [array |-> FALSE, members |-> <<>>]

\* The values of the members of a body.
ValuesOf(body) == {body.members[k].val : k \in 1..Len(body.members)}

\* cachedTodoSet.map((title) => ({ title }))
MapTitle(arr) == JsonArray("title", arr)

\* res.send(todos) of the rows of the SELECT.
SendRows(rows) == JsonArray("title", [k \in 1..Len(rows) |-> rows[k].title])

\* The document the create handler submits for a title.
Document(todoTitle) == [todotext |-> todoTitle]

\* match: { todotext: searchText }.  A title is one token, so a document
\* matches when its todotext is the search text; every stored copy is a hit.
Match(searchText) ==
    JsonArray("todotext",
              [k \in 1..CopiesIn(Document(searchText), elastic) |-> searchText])

FetchError == JsonObject("error", "Failed to fetch todos")
CreateError == JsonObject("error", "Failed to create todo")

\* A request as its handler starts: suspended on its first call.  The last
\* three fields are history, written only by the specifications that observe
\* a request: the titles in the table when a list request began, the mark of
\* the one request that is followed, and the titles whose creation had been
\* reported when it began.
NewRequest(kind, call, title) ==
    [kind |-> kind, pc |-> call, title |-> title,
     cached |-> <<>>, todos |-> <<>>, i |-> 0,
     status |-> 0, body |-> NoBody,
     failed |-> "none", nQuery |-> 0, nSAdd |-> 0, nIndex |-> 0,
     dbAtStart |-> {}, observed |-> FALSE, ackedAtStart |-> {}]

\* res.send(b) / res.status(s).send(b): the request is over.
Respond(q, s, b) == [q EXCEPT !.pc = "done", !.status = s, !.body = b]

Serving == BagToSet(req)

\* A handler is invoked for a new request.
Accept(q) ==
    /\ BagCardinality(req) < NumReqs
    /\ req' = req (+) SetToBag({q})

\* The request q continues as q2.
Continue(q, q2) == req' = (req (-) SetToBag({q})) (+) SetToBag({q2})

----------------------------------------------------------------------------
Init ==
    /\ db = {}
    /\ redis = {}
    /\ elastic = EmptyBag
    /\ req = EmptyBag

----------------------------------------------------------------------------
\* GET /api/v1/todos

\* The handler starts and issues redisClient.sMembers("todos").
StartList ==
    /\ Accept(NewRequest("list", "sMembers", NoTitle))
    /\ UNCHANGED <<db, redis, elastic>>

\* As ListSMembers, but a non-empty cached array does not end the request:
\* the handler goes on to the SELECT.
ListSMembers_NoShortCircuit(q) ==
    /\ q.kind = "list" /\ q.pc = "sMembers"
    /\ \/ Continue(q, Respond([q EXCEPT !.failed = "sMembers"], 500, FetchError))
       \/ \E cachedTodoSet \in sMembers(redis) :
            Continue(q, [q EXCEPT !.cached = cachedTodoSet, !.pc = "query",
                                  !.nQuery = @ + 1])
    /\ UNCHANGED <<db, redis, elastic>>

\* As ListSMembers, but a rejected sMembers is treated as an empty cache:
\* the handler falls through to the SELECT.
ListSMembers_FallThrough(q) ==
    /\ q.kind = "list" /\ q.pc = "sMembers"
    /\ \/ Continue(q, [q EXCEPT !.failed = "sMembers", !.pc = "query",
                                !.nQuery = @ + 1])
       \/ \E cachedTodoSet \in sMembers(redis) :
            Continue(q,
                IF Len(cachedTodoSet) > 0
                THEN Respond([q EXCEPT !.cached = cachedTodoSet], 200,
                             MapTitle(cachedTodoSet))
                ELSE [q EXCEPT !.cached = cachedTodoSet, !.pc = "query",
                               !.nQuery = @ + 1])
    /\ UNCHANGED <<db, redis, elastic>>

\* Reply of sMembers: respond from the cache, or issue the SELECT.
ListSMembers(q) ==
    /\ q.kind = "list" /\ q.pc = "sMembers"
    /\ \/ Continue(q, Respond([q EXCEPT !.failed = "sMembers"], 500, FetchError))
       \/ \E cachedTodoSet \in sMembers(redis) :
            Continue(q,
                IF Len(cachedTodoSet) > 0
                THEN Respond([q EXCEPT !.cached = cachedTodoSet], 200,
                             MapTitle(cachedTodoSet))
                ELSE [q EXCEPT !.cached = cachedTodoSet, !.pc = "query",
                               !.nQuery = @ + 1])
    /\ UNCHANGED <<db, redis, elastic>>

\* As ListQuery, but a rejected SELECT is answered with an empty list.
ListQuery_EmptyOnError(q) ==
    /\ q.kind = "list" /\ q.pc = "query"
    /\ \/ Continue(q, Respond([q EXCEPT !.failed = "query"], 200, SendRows(<<>>)))
       \/ \E todos \in todoRows :
            Continue(q,
                IF Len(todos) > 0
                THEN [q EXCEPT !.todos = todos, !.pc = "sAdd", !.i = 1,
                               !.nSAdd = @ + 1]
                ELSE Respond([q EXCEPT !.todos = todos], 200, SendRows(todos)))
    /\ UNCHANGED <<db, redis, elastic>>

\* Reply of the SELECT: start the backfill loop or respond with no rows.
ListQuery(q) ==
    /\ q.kind = "list" /\ q.pc = "query"
    /\ \/ Continue(q, Respond([q EXCEPT !.failed = "query"], 500, FetchError))
       \/ \E todos \in todoRows :
            Continue(q,
                IF Len(todos) > 0
                THEN [q EXCEPT !.todos = todos, !.pc = "sAdd", !.i = 1,
                               !.nSAdd = @ + 1]
                ELSE Respond([q EXCEPT !.todos = todos], 200, SendRows(todos)))
    /\ UNCHANGED <<db, redis, elastic>>

\* A rejected sAdd inside the for loop: the exception leaves the loop and
\* reaches the handler's catch.
ListSAddRejected(q) ==
    Respond([q EXCEPT !.failed = "sAdd"], 500, FetchError)

\* As ListSAdd, but the last title of the rows is never added to the set.
ListSAdd_SkipLast(q) ==
    /\ q.kind = "list" /\ q.pc = "sAdd"
    /\ \/ /\ Continue(q, ListSAddRejected(q))
          /\ UNCHANGED redis
       \/ /\ redis' = IF q.i < Len(q.todos)
                      THEN redis \cup {q.todos[q.i].title}
                      ELSE redis
          /\ Continue(q,
                IF q.i < Len(q.todos)
                THEN [q EXCEPT !.i = @ + 1, !.nSAdd = @ + 1]
                ELSE Respond(q, 200, SendRows(q.todos)))
    /\ UNCHANGED <<db, elastic>>

\* Reply of one backfill sAdd: next title, or respond with the rows.
ListSAdd(q) ==
    /\ q.kind = "list" /\ q.pc = "sAdd"
    /\ \/ /\ Continue(q, ListSAddRejected(q))
          /\ UNCHANGED redis
       \/ /\ redis' = redis \cup {q.todos[q.i].title}
          /\ Continue(q,
                IF q.i < Len(q.todos)
                THEN [q EXCEPT !.i = @ + 1, !.nSAdd = @ + 1]
                ELSE Respond(q, 200, SendRows(q.todos)))
    /\ UNCHANGED <<db, elastic>>

----------------------------------------------------------------------------
\* POST /api/v1/todos

\* The handler starts with todoTitle = req.body.title and issues the INSERT.
StartCreate(todoTitle) ==
    /\ Accept(NewRequest("create", "insert", todoTitle))
    /\ UNCHANGED <<db, redis, elastic>>

\* As InsertAccepted, but the table has no UNIQUE constraint on title.
InsertAccepted_NoUnique(todoTitle) ==
    todoTitle # NoTitle

\* The table's constraints: title TEXT UNIQUE NOT NULL.
InsertAccepted(todoTitle) ==
    /\ todoTitle # NoTitle
    /\ todoTitle \notin db

\* As CreateRejected, but the catch only logs: the handler returns without
\* sending an answer.
CreateRejected_Silent(q, call) ==
    [q EXCEPT !.pc = "done", !.failed = call]

\* A rejected step of the create handler: the single catch of the handler
\* answers 500 whichever of its three calls rejected.
CreateRejected(q, call) ==
    Respond([q EXCEPT !.failed = call], 500, CreateError)

\* As CreateInsert, but a rejected INSERT does not stop the handler: it goes
\* on to the cache write.
CreateInsert_IgnoreFailure(q) ==
    /\ q.kind = "create" /\ q.pc = "insert"
    /\ \/ /\ Continue(q, [q EXCEPT !.failed = "insert", !.pc = "sAdd",
                                   !.nSAdd = @ + 1])
          /\ UNCHANGED db
       \/ /\ InsertAccepted(q.title)
          /\ db' = db \cup {q.title}
          /\ Continue(q, [q EXCEPT !.pc = "sAdd", !.nSAdd = @ + 1])
    /\ UNCHANGED <<redis, elastic>>

\* As CreateInsert, but once the row is committed the index write is issued
\* ahead of the cache write.
CreateInsert_IndexFirst(q) ==
    /\ q.kind = "create" /\ q.pc = "insert"
    /\ \/ /\ Continue(q, CreateRejected(q, "insert"))
          /\ UNCHANGED db
       \/ /\ InsertAccepted(q.title)
          /\ db' = db \cup {q.title}
          /\ Continue(q, [q EXCEPT !.pc = "index", !.nIndex = @ + 1])
    /\ UNCHANGED <<redis, elastic>>

\* Reply of the INSERT: on success the row is committed and sAdd is issued.
CreateInsert(q) ==
    /\ q.kind = "create" /\ q.pc = "insert"
    /\ \/ /\ Continue(q, CreateRejected(q, "insert"))
          /\ UNCHANGED db
       \/ /\ InsertAccepted(q.title)
          /\ db' = db \cup {q.title}
          /\ Continue(q, [q EXCEPT !.pc = "sAdd", !.nSAdd = @ + 1])
    /\ UNCHANGED <<redis, elastic>>

\* As CreateSAdd, but the cache key is overwritten with the new title (SET)
\* instead of the title being added to the set (SADD).
CreateSAdd_Overwrite(q) ==
    /\ q.kind = "create" /\ q.pc = "sAdd"
    /\ \/ /\ Continue(q, CreateRejected(q, "sAdd"))
          /\ UNCHANGED redis
       \/ /\ redis' = {q.title}
          /\ Continue(q, [q EXCEPT !.pc = "index", !.nIndex = @ + 1])
    /\ UNCHANGED <<db, elastic>>

\* As CreateSAdd, but the answered call has not added the title to the set.
CreateSAdd_NoWrite(q) ==
    /\ q.kind = "create" /\ q.pc = "sAdd"
    /\ \/ Continue(q, CreateRejected(q, "sAdd"))
       \/ Continue(q, [q EXCEPT !.pc = "index", !.nIndex = @ + 1])
    /\ UNCHANGED <<db, redis, elastic>>

\* As CreateSAdd, but the handler invalidates the cache (DEL) instead of
\* adding the title to it.
CreateSAdd_Invalidate(q) ==
    /\ q.kind = "create" /\ q.pc = "sAdd"
    /\ \/ /\ Continue(q, CreateRejected(q, "sAdd"))
          /\ UNCHANGED redis
       \/ /\ redis' = {}
          /\ Continue(q, [q EXCEPT !.pc = "index", !.nIndex = @ + 1])
    /\ UNCHANGED <<db, elastic>>

\* Reply of sAdd: on success the title is in the set and the index call is issued.
CreateSAdd(q) ==
    /\ q.kind = "create" /\ q.pc = "sAdd"
    /\ \/ /\ Continue(q, CreateRejected(q, "sAdd"))
          /\ UNCHANGED redis
       \/ /\ redis' = redis \cup {q.title}
          /\ Continue(q, [q EXCEPT !.pc = "index", !.nIndex = @ + 1])
    /\ UNCHANGED <<db, elastic>>

\* Reply of elasticClient.index: on success the document is stored and the
\* handler answers 201 with the request body.
CreateIndex(q) ==
    /\ q.kind = "create" /\ q.pc = "index"
    /\ \/ /\ Continue(q, CreateRejected(q, "index"))
          /\ UNCHANGED elastic
       \/ /\ elastic' = elastic (+) SetToBag({Document(q.title)})
          /\ Continue(q, Respond(q, 201, JsonObject("title", q.title)))
    /\ UNCHANGED <<db, redis>>

----------------------------------------------------------------------------
\* POST /api/v1/search

\* The handler starts with searchText = req.body.searchText and issues the query.
StartSearch(searchText) ==
    /\ Accept(NewRequest("search", "search", searchText))
    /\ UNCHANGED <<db, redis, elastic>>

\* As SearchRejected, but the failure is surfaced like in the other handlers.
SearchRejected_Surfaced(q) ==
    Respond([q EXCEPT !.failed = "search"], 500, JsonObject("error", "Search failed"))

\* A rejected search: the catch answers an empty array with the default status.
SearchRejected(q) ==
    Respond([q EXCEPT !.failed = "search"], 200, JsonArray("todotext", <<>>))

\* The engine accepts a match query only when it carries a text: without
\* searchText the query body is { match: {} }, which it rejects.
QueryAccepted(searchText) == searchText # NoTitle

\* As Search, but every accepted query is also stored in the index.
Search_Recording(q) ==
    /\ q.kind = "search" /\ q.pc = "search"
    /\ \/ /\ Continue(q, SearchRejected(q))
          /\ UNCHANGED elastic
       \/ /\ QueryAccepted(q.title)
          /\ Continue(q, Respond(q, 200, Match(q.title)))
          /\ elastic' = elastic (+) SetToBag({Document(q.title)})
    /\ UNCHANGED <<db, redis>>

\* Reply of elasticClient.search: answer results.hits.hits.
Search(q) ==
    /\ q.kind = "search" /\ q.pc = "search"
    /\ \/ Continue(q, SearchRejected(q))
       \/ /\ QueryAccepted(q.title)
          /\ Continue(q, Respond(q, 200, Match(q.title)))
    /\ UNCHANGED <<db, redis, elastic>>

----------------------------------------------------------------------------
\* The response has been sent; the request leaves the server.
Finish(q) ==
    /\ q.pc = "done"
    /\ req' = req (-) SetToBag({q})
    /\ UNCHANGED <<db, redis, elastic>>

Next ==
    \/ StartList
    \/ \E todoTitle \in Inputs : StartCreate(todoTitle)
    \/ \E searchText \in Inputs : StartSearch(searchText)
    \/ \E q \in Serving : ListSMembers(q)
    \/ \E q \in Serving : ListQuery(q)
    \/ \E q \in Serving : ListSAdd(q)
    \/ \E q \in Serving : CreateInsert(q)
    \/ \E q \in Serving : CreateSAdd(q)
    \/ \E q \in Serving : CreateIndex(q)
    \/ \E q \in Serving : Search(q)
    \/ \E q \in Serving : Finish(q)

Spec == Init /\ [][Next]_vars

----------------------------------------------------------------------------
\* The list and create handlers over a table that already holds rows, with
\* list requests that remember what the table held when they began.

\* StartList, recording the rows of the table at that moment.
StartListH ==
    /\ Accept([NewRequest("list", "sMembers", NoTitle) EXCEPT !.dbAtStart = db])
    /\ UNCHANGED <<db, redis, elastic>>

\* In this step no store call is rejected for a reason other than the
\* table's constraints: the only request that fails is a create whose title
\* the table refuses.
NoConnectionFailure ==
    \A x \in BagToSet(req') :
        (x.failed # "none" /\ CopiesIn(x, req') > CopiesIn(x, req)) =>
            (x.kind = "create" /\ x.failed = "insert" /\ ~InsertAccepted(x.title))

\* A table that already holds two or more rows, behind an empty cache.
InitCold ==
    /\ db \in {S \in SUBSET Titles : Cardinality(S) >= 2}
    /\ redis = {}
    /\ elastic = EmptyBag
    /\ req = EmptyBag

\* List and create requests, in any interleaving, with no connection failure.
NextCold ==
    /\ \/ StartListH
       \/ \E todoTitle \in Inputs : StartCreate(todoTitle)
       \/ \E q \in Serving : ListSMembers(q)
       \/ \E q \in Serving : ListQuery(q)
       \/ \E q \in Serving : ListSAdd(q)
       \/ \E q \in Serving : CreateInsert(q)
       \/ \E q \in Serving : CreateSAdd(q)
       \/ \E q \in Serving : CreateIndex(q)
       \/ \E q \in Serving : Finish(q)
    /\ NoConnectionFailure

SpecCold == InitCold /\ [][NextCold]_vars

----------------------------------------------------------------------------
\* The handlers, with one request at a time that is followed from its start.

\* The titles whose creation has been reported to a client.  The 201 answer
\* is sent in the continuation of the index call's success, so these are the
\* titles that have a document.
Acked == {d.todotext : d \in BagToSet(elastic)}

\* No request in service is being followed.
NoneObserved == \A x \in Serving : ~x.observed

\* StartList for the followed request, which arrives after some creation was
\* reported, recording the titles reported so far.
StartListObserved ==
    /\ NoneObserved
    /\ Acked # {}
    /\ Accept([NewRequest("list", "sMembers", NoTitle)
                  EXCEPT !.observed = TRUE, !.ackedAtStart = Acked])
    /\ UNCHANGED <<db, redis, elastic>>

NextObs ==
    \/ StartListObserved
    \/ Next

SpecObs == Init /\ [][NextObs]_vars

----------------------------------------------------------------------------
\* The handlers under the assumption that every store call returns: the call
\* the followed request awaits is eventually answered or rejected, so its
\* continuation eventually runs.

\* A handler is invoked for the followed request, of any route.
StartObserved ==
    /\ NoneObserved
    /\ \E kind \in {"list", "create", "search"}, title \in Inputs :
          /\ kind = "list" => title = NoTitle
          /\ Accept([NewRequest(kind,
                                CASE kind = "list" -> "sMembers"
                                  [] kind = "create" -> "insert"
                                  [] OTHER -> "search",
                                title) EXCEPT !.observed = TRUE])
    /\ UNCHANGED <<db, redis, elastic>>

\* The call the followed request awaits returns and its continuation runs.
ObservedReply ==
    \E q \in Serving :
        /\ q.observed
        /\ \/ ListSMembers(q) \/ ListQuery(q) \/ ListSAdd(q)
           \/ CreateInsert(q) \/ CreateSAdd(q) \/ CreateIndex(q)
           \/ Search(q)

NextLive ==
    \/ StartObserved
    \/ Next

LiveSpec == Init /\ [][NextLive]_vars /\ WF_vars(ObservedReply)

----------------------------------------------------------------------------
\* Properties

\* This step is the one in which the request q, suspended on `call`, handles
\* the reply of that call and continues as q2.
ReplyStep(q, q2, kind, call) ==
    /\ q.kind = kind
    /\ q.pc = call
    /\ q2 # q
    /\ Continue(q, q2)

\* C1: a create request whose INSERT fails (duplicate title, missing title or
\* connection failure) answers 500 "Failed to create todo", has issued no
\* cache add and no index write, and its step leaves the table, the cache set
\* and the index as they were.
C1_InsertFailureAborts ==
    [][\A q \in Serving : \A q2 \in BagToSet(req') :
        (ReplyStep(q, q2, "create", "insert") /\ db' = db) =>
            /\ q2.pc = "done"
            /\ q2.status = 500
            /\ q2.body = CreateError
            /\ q2.nSAdd = 0
            /\ q2.nIndex = 0
            /\ redis' = redis
            /\ elastic' = elastic]_vars

\* A create request for a title already in the table has been answered after
\* its INSERT failed, while cache and index hold entries.
C1_Witness ==
    \E q \in Serving :
        /\ q.kind = "create" /\ q.pc = "done"
        /\ q.failed = "insert"
        /\ q.title \in db
        /\ q.title \in redis
        /\ elastic # EmptyBag

\* C2: a create request whose INSERT succeeded and whose cache write failed
\* is answered 201 with the accepted title.
C2_CacheFailureStillCreated ==
    \A q \in Serving :
        (q.kind = "create" /\ q.pc = "done" /\ q.failed = "sAdd") =>
            /\ q.status = 201
            /\ q.body = JsonObject("title", q.title)

\* C3: a create request whose INSERT and cache write succeeded and whose
\* index write failed is answered 201.
C3_IndexFailureStillCreated ==
    \A q \in Serving :
        (q.kind = "create" /\ q.pc = "done" /\ q.failed = "index") =>
            q.status = 201

\* C4: a list request that reads a non-empty cache set answers, in that very
\* step, 200 with an array of one {title} record per member of the set and
\* nothing else, having issued no SELECT and no cache write; no store changes.
C4_CacheShortCircuit ==
    [][\A q \in Serving : \A q2 \in BagToSet(req') :
        (ReplyStep(q, q2, "list", "sMembers") /\ q2.cached # <<>>) =>
            /\ q2.pc = "done"
            /\ q2.status = 200
            /\ q2.body.array
            /\ Len(q2.body.members) = Cardinality(redis)
            /\ ValuesOf(q2.body) = redis
            /\ \A k \in 1..Len(q2.body.members) : q2.body.members[k].key = "title"
            /\ q2.nQuery = 0
            /\ q2.nSAdd = 0
            /\ UNCHANGED <<db, redis, elastic>>]_vars

\* A list request has been answered from a cache of two titles.
C4_Witness ==
    \E q \in Serving :
        /\ q.kind = "list" /\ q.pc = "done"
        /\ Len(q.cached) = 2
        /\ q.status = 200

\* C5: a list request that read an empty cache and none of whose calls failed
\* answers 200 with exactly the rows the SELECT returned, each once and each
\* a row of the table, and once it has answered the cache set holds every one
\* of these titles.
C5_ColdCacheBackfill ==
    \A q \in Serving :
        (q.kind = "list" /\ q.pc = "done" /\ q.cached = <<>> /\ q.failed = "none") =>
            /\ q.status = 200
            /\ q.body = SendRows(q.todos)
            /\ ValuesOf(q.body) = TitlesOf(q.todos)
            /\ ValuesOf(q.body) \subseteq db
            /\ Len(q.body.members) = Cardinality(ValuesOf(q.body))
            /\ ValuesOf(q.body) \subseteq redis
            /\ q.nSAdd = Len(q.todos)

\* A list request on an empty cache has answered two rows of the table.
C5_Witness ==
    \E q \in Serving :
        /\ q.kind = "list" /\ q.pc = "done"
        /\ q.cached = <<>> /\ q.failed = "none"
        /\ Len(q.todos) = 2

\* C6: in a list request on an empty cache, when one backfill write fails the
\* remaining writes are still attempted and the request answers 200 with the
\* rows of the SELECT.
C6_BackfillFailureTolerated ==
    \A q \in Serving :
        (q.kind = "list" /\ q.pc = "done" /\ q.failed = "sAdd") =>
            /\ q.status = 200
            /\ q.body = SendRows(q.todos)
            /\ q.nSAdd = Len(q.todos)

\* C7: every search request is answered with status 200 and an array; when
\* the index query failed the array is empty, the same answer as for no hits.
C7_SearchFailSoft ==
    \A q \in Serving :
        (q.kind = "search" /\ q.pc = "done") =>
            /\ q.status = 200
            /\ q.body.array
            /\ (q.failed = "search" => q.body.members = <<>>)

\* A search has been answered after its query failed, while the index holds
\* a document that matches its text.
C7_Witness ==
    \E q \in Serving :
        /\ q.kind = "search" /\ q.pc = "done"
        /\ q.failed = "search"
        /\ BagIn(Document(q.title), elastic)

\* C8: a list request whose sMembers call failed has answered 500 and has
\* issued no SELECT.
C8_CacheReadFailFast ==
    \A q \in Serving :
        (q.kind = "list" /\ q.failed = "sMembers") =>
            /\ q.pc = "done"
            /\ q.status = 500
            /\ q.body = FetchError
            /\ q.nQuery = 0

\* A list request has been answered after its sMembers call failed while the
\* table holds rows.
C8_Witness ==
    \E q \in Serving :
        /\ q.kind = "list" /\ q.pc = "done"
        /\ q.failed = "sMembers"
        /\ db # {}

\* C9: a list request that read an empty cache and whose SELECT failed has
\* answered 500 with the error record and no item list, and has issued no
\* cache write.
C9_QueryFailureNoSubstitute ==
    \A q \in Serving :
        (q.kind = "list" /\ q.failed = "query") =>
            /\ q.cached = <<>>
            /\ q.pc = "done"
            /\ q.status = 500
            /\ q.body = FetchError
            /\ q.nSAdd = 0

\* A list request has been answered after its SELECT failed while the table
\* holds rows.
C9_Witness ==
    \E q \in Serving :
        /\ q.kind = "list" /\ q.pc = "done"
        /\ q.failed = "query"
        /\ db # {}

\* C10: a committed row is never removed; the SELECT of a list request
\* returns every committed row; and every list request that read an empty
\* cache and got a reply to its SELECT answers 200 with all the rows of that
\* reply, so with every title committed before the request.
C10_CommitSurvives ==
    /\ [][db \subseteq db']_vars
    /\ [][\A q \in Serving : \A q2 \in BagToSet(req') :
            (ReplyStep(q, q2, "list", "query") /\ q2.failed = "none") =>
                TitlesOf(q2.todos) = db]_vars
    /\ [](\A q \in Serving :
            (/\ q.kind = "list" /\ q.pc = "done"
             /\ q.cached = <<>>
             /\ q.failed \notin {"sMembers", "query"}) =>
                /\ q.status = 200
                /\ TitlesOf(q.todos) \subseteq ValuesOf(q.body))

\* C11: a create request whose INSERT succeeded and whose cache write failed
\* goes on to submit the title to the search index.
C11_CacheFailureStillIndexed ==
    \A q \in Serving :
        (q.kind = "create" /\ q.pc = "done" /\ q.failed = "sAdd") =>
            q.nIndex = 1

\* C12: from an empty cache over a table of two or more rows, with no
\* connection failure, every list request is answered 200 with every title
\* that was in the table when the request began.
C12_ListSeesTable ==
    \A q \in Serving :
        (q.kind = "list" /\ q.pc = "done") =>
            /\ q.status = 200
            /\ q.dbAtStart \subseteq ValuesOf(q.body)

\* The title whose sAdd the request q is suspended on.
WrittenTitle(q) == IF q.kind = "list" THEN q.todos[q.i].title ELSE q.title

\* The sAdd the request q is suspended on is answered without a rejection.
SAddSucceeds(q) ==
    /\ ListSAdd(q) \/ CreateSAdd(q)
    /\ \A x \in BagToSet(req') :
          x.failed = "sAdd" => CopiesIn(x, req') <= CopiesIn(x, req)

\* C13: a backfill write and a create's cache write are set additions: each
\* one that is answered leaves the set as it was plus its title, whether or
\* not the other one came first, so both orders end in the same set holding
\* the title once; and a write can be answered whatever the set already
\* holds, so neither request fails because of the other.
C13_CacheWritesCommute ==
    /\ [][\A q \in Serving : \A q2 \in BagToSet(req') :
            (/\ q.pc = "sAdd" /\ q2 # q /\ Continue(q, q2)
             /\ q2.failed = "none") =>
                redis' = redis \cup {WrittenTitle(q)}]_vars
    /\ [](\A q \in Serving : q.pc = "sAdd" => ENABLED SAddSucceeds(q))

\* A list request has backfilled a title and been answered while the create
\* request of the same title, whose cache write ran concurrently, has had its
\* write answered too.
C13_Witness ==
    \E q \in Serving : \E c \in Serving :
        /\ q.kind = "list" /\ q.pc = "done" /\ q.status = 200 /\ q.cached = <<>>
        /\ c.kind = "create" /\ c.pc \in {"index", "done"} /\ c.failed # "sAdd"
        /\ c.title \in TitlesOf(q.todos)
        /\ c.title \in redis

\* The store calls a create request has in flight: the one its handler is
\* suspended on.
InFlight(q) == {q.pc} \cap {"insert", "sAdd", "index"}

\* C14: the calls of one create request go INSERT, then sAdd, then index.
\* The sAdd is issued in the step that handles the INSERT's success, when the
\* row is in the table; the index write is issued in the step that handles
\* the sAdd's answer, when the title is in the set; each is issued once; and
\* a request has at most one call in flight.
C14_CreateSequential ==
    /\ [][\A q \in Serving : \A q2 \in BagToSet(req') :
            (q.kind = "create" /\ q2 # q /\ Continue(q, q2)) =>
                /\ q.pc = "insert" => q2.pc \in {"sAdd", "done"}
                /\ q.pc = "sAdd" => q2.pc \in {"index", "done"}
                /\ q.pc = "index" => q2.pc = "done"
                /\ q2.nSAdd = (IF q.pc = "insert" /\ q2.pc = "sAdd"
                               THEN q.nSAdd + 1 ELSE q.nSAdd)
                /\ q2.nIndex = (IF q.pc = "sAdd" /\ q2.pc = "index"
                                THEN q.nIndex + 1 ELSE q.nIndex)
                /\ q2.pc = "sAdd" => q.title \in db' /\ q2.failed = "none"
                /\ q2.pc = "index" => q.title \in redis' /\ q2.failed = "none"]_vars
    /\ [](\A q \in Serving :
            q.kind = "create" =>
                /\ Cardinality(InFlight(q)) <= 1
                /\ q.nSAdd <= 1 /\ q.nIndex <= q.nSAdd
                /\ q.nSAdd = 1 => q.title \in db
                /\ q.nIndex = 1 => q.title \in redis)

\* A create request has been answered 201 after its three calls.
C14_Witness ==
    \E q \in Serving :
        /\ q.kind = "create" /\ q.pc = "done" /\ q.status = 201
        /\ q.nSAdd = 1 /\ q.nIndex = 1
        /\ BagIn(Document(q.title), elastic)

\* C15: a step of a search request changes no store; a step of a list
\* request changes neither the table nor the index, a list request issues no
\* index call, and what it answers with status 200 is the array it read from
\* the cache or the rows it read from the table; requests arriving or
\* leaving change no store.
C15_SearchAndListFrames ==
    /\ [][\A q \in Serving : \A q2 \in BagToSet(req') :
            (q2 # q /\ Continue(q, q2)) =>
                /\ q.kind = "search" => UNCHANGED <<db, redis, elastic>>
                /\ q.kind = "list" =>
                     /\ UNCHANGED <<db, elastic>>
                     /\ q2.nIndex = 0
                     /\ (q2.pc = "done" /\ q2.status = 200) =>
                          q2.body = (IF q2.cached # <<>>
                                     THEN MapTitle(q2.cached)
                                     ELSE SendRows(q2.todos))]_vars
    /\ [][BagCardinality(req') # BagCardinality(req) =>
            UNCHANGED <<db, redis, elastic>>]_vars

\* A search has been answered with a hit and a list request with titles while
\* all three stores hold entries.
C15_Witness ==
    /\ \E q \in Serving :
          q.kind = "search" /\ q.pc = "done" /\ q.body.members # <<>>
    /\ \E q \in Serving :
          q.kind = "list" /\ q.pc = "done" /\ q.status = 200 /\ q.body.members # <<>>
    /\ db # {} /\ redis # {} /\ elastic # EmptyBag

\* C16: in every step the rows of the table, the members of the cache set and
\* the documents of the index stay or grow; none is removed or changed.
C16_StoresOnlyGrow ==
    [][/\ db \subseteq db'
       /\ redis \subseteq redis'
       /\ elastic \sqsubseteq elastic']_vars

\* All three stores hold entries, the cache two titles.
C16_Witness ==
    /\ Cardinality(db) = 2
    /\ Cardinality(redis) = 2
    /\ BagCardinality(elastic) >= 1

\* C17: every member of the cache set is the title of a row of the table.
C17_CacheWithinTable ==
    redis \subseteq db

\* The cache holds a title while the table holds a row that is not cached and
\* a create request for a title the table does not hold is in service.
C17_Witness ==
    /\ redis # {}
    /\ db \ redis # {}
    /\ \E q \in Serving :
          q.kind = "create" /\ q.failed = "insert" /\ q.title \notin db

\* C18: every indexed document carries the title of a row of the table, and
\* no two documents carry the same title.
C18_IndexWithinTable ==
    \A d \in BagToSet(elastic) :
        /\ d.todotext \in db
        /\ CopiesIn(d, elastic) = 1

\* Two create requests for the same title were in service together: one was
\* answered 201 and its document is stored, the other was refused.
C18_Witness ==
    \E q \in Serving : \E c \in Serving :
        /\ q.kind = "create" /\ q.pc = "done" /\ q.status = 201
        /\ c.kind = "create" /\ c.pc = "done" /\ c.failed = "insert"
        /\ c.title = q.title
        /\ BagIn(Document(q.title), elastic)

\* C19: a list request that began after the creation of a title was reported
\* with 201, and that is answered 200, has the title in its answer; and the
\* titles reported include the title of every create request answered 201.
C19_ReadYourWrites ==
    /\ \A q \in Serving :
          (q.kind = "create" /\ q.status = 201) => q.title \in Acked
    /\ \A q \in Serving :
          (q.observed /\ q.kind = "list" /\ q.pc = "done" /\ q.status = 200) =>
              q.ackedAtStart \subseteq ValuesOf(q.body)

\* A list request that began after one title was reported has been answered
\* 200 while the table holds a second title.
C19_Witness ==
    \E q \in Serving :
        /\ q.observed /\ q.kind = "list" /\ q.pc = "done" /\ q.status = 200
        /\ Cardinality(q.ackedAtStart) = 1
        /\ Cardinality(db) = 2

\* C20: provided every store call returns, a request in service is eventually
\* answered; it is answered exactly once: a request is over exactly when a
\* status has been sent, and an answered request keeps its answer until it
\* leaves the server.
C20_EventuallyOneResponse ==
    /\ (\E q \in Serving : q.observed /\ q.pc # "done")
          ~> (\E q \in Serving : q.observed /\ q.pc = "done" /\ q.status # 0)
    /\ [](\A q \in Serving : (q.pc = "done") <=> (q.status # 0))
    /\ [][\A q \in Serving :
            (q.observed /\ q.pc = "done") =>
                (CopiesIn(q, req') = 1 \/ NoneObserved')]_vars

\* The followed list request has been answered after a backfill of two rows,
\* its longest path.
C20_Witness ==
    \E q \in Serving :
        /\ q.observed /\ q.kind = "list" /\ q.pc = "done" /\ q.status = 200
        /\ q.nSAdd = 2

====
